---- MODULE Spec2Model ----
(***************************************************************************)
(* Authentication and authorization of the jiaxun backend: the JWT token   *)
(* codec (GenerateToken / jwt.ParseWithClaims), AuthMiddleware, the        *)
(* authorization middlewares, the /api/users route table and the user      *)
(* handlers behind it.                                                     *)
(*                                                                         *)
(* Conventions.  A Go string is a sequence of one-character strings.  A Go *)
(* unsigned integer is its canonical decimal numeral (a sequence of digit  *)
(* characters without leading zeros), so the 32 and 64 bit ranges of       *)
(* strconv.ParseUint are exact.  Time is counted in ticks, TicksPerSecond  *)
(* to the second; jwt.NumericDate values are whole seconds.                *)
(***************************************************************************)
EXTENDS Integers, Sequences, FiniteSets, TLC

(***************************************************************************)
(* Bounds of the model                                                     *)
(***************************************************************************)
\* clock readings are taken in the first MaxJitter ticks of a token lifetime
MaxJitter == 2
\* the clock runs over MaxDays token lifetimes
MaxDays == 1
\* resolution of the clock: ticks to the second
TicksPerSecond == 2

(***************************************************************************)
(* Strings                                                                 *)
(***************************************************************************)
PathLogin == <<"/", "a", "p", "i", "/", "a", "u", "t", "h", "/", "l", "o", "g", "i", "n">>
PathRegisterPublic == <<"/", "a", "p", "i", "/", "a", "u", "t", "h", "/", "r", "e", "g", "i", "s", "t", "e", "r">>
PathHealth == <<"/", "a", "p", "i", "/", "h", "e", "a", "l", "t", "h">>
PathUsers == <<"/", "a", "p", "i", "/", "u", "s", "e", "r", "s">>
RoleTeacher == <<"t", "e", "a", "c", "h", "e", "r">>
RoleAdmin == <<"a", "d", "m", "i", "n">>
RoleStudent == <<"s", "t", "u", "d", "e", "n", "t">>
NameMe == <<"m", "e">>
EmptyString == << >>

\* strings.HasPrefix
HasPrefix(s, prefix) ==
    /\ Len(s) >= Len(prefix)
    /\ SubSeq(s, 1, Len(prefix)) = prefix

\* strings.Split(s, sep) for a one-character separator
RECURSIVE Split(_, _)
Split(s, sep) ==
    IF \A i \in 1..Len(s) : s[i] # sep
    THEN <<s>>
    ELSE LET i == CHOOSE k \in 1..Len(s) :
                      /\ s[k] = sep
                      /\ \A j \in 1..(k - 1) : s[j] # sep
         IN  <<SubSeq(s, 1, i - 1)>> \o Split(SubSeq(s, i + 1, Len(s)), sep)

(***************************************************************************)
(* Unsigned integers as decimal numerals                                   *)
(***************************************************************************)
Digits == <<"0", "1", "2", "3", "4", "5", "6", "7", "8", "9">>
DigitSet == {Digits[i] : i \in 1..10}
DigitVal(c) == (CHOOSE i \in 1..10 : Digits[i] = c) - 1

MaxUint32 == <<"4", "2", "9", "4", "9", "6", "7", "2", "9", "5">>
MaxUint64 == <<"1", "8", "4", "4", "6", "7", "4", "4", "0", "7",
               "3", "7", "0", "9", "5", "5", "1", "6", "1", "5">>
MaxUint(bitSize) == IF bitSize = 32 THEN MaxUint32 ELSE MaxUint64

RECURSIVE StripZeros(_)
StripZeros(ds) ==
    IF Len(ds) > 1 /\ ds[1] = "0" THEN StripZeros(Tail(ds)) ELSE ds

\* a <= b for numerals of the same length
RECURSIVE NumeralLeq(_, _)
NumeralLeq(a, b) ==
    IF a = << >> THEN TRUE
    ELSE IF DigitVal(a[1]) < DigitVal(b[1]) THEN TRUE
    ELSE IF DigitVal(a[1]) > DigitVal(b[1]) THEN FALSE
    ELSE NumeralLeq(Tail(a), Tail(b))

InRange(n, bitSize) ==
    \/ Len(n) < Len(MaxUint(bitSize))
    \/ Len(n) = Len(MaxUint(bitSize)) /\ NumeralLeq(n, MaxUint(bitSize))

\* strconv.ParseUint(s, 10, bitSize): a syntax error on the empty string and on
\* any character that is not a decimal digit (a sign included), a range error
\* above 2^bitSize - 1
ParseUint(s, bitSize) ==
    IF s = << >> \/ \E i \in 1..Len(s) : s[i] \notin DigitSet
    THEN [ok |-> FALSE, val |-> <<"0">>]
    ELSE IF ~InRange(StripZeros(s), bitSize)
    THEN [ok |-> FALSE, val |-> MaxUint(bitSize)]
    ELSE [ok |-> TRUE, val |-> StripZeros(s)]

\* the successor of a numeral (the database's auto-increment)
RECURSIVE NumeralSucc(_)
NumeralSucc(n) ==
    IF n = << >> THEN <<"1">>
    ELSE LET last == n[Len(n)]
             init == SubSeq(n, 1, Len(n) - 1)
         IN  IF last = "9" THEN NumeralSucc(init) \o <<"0">>
             ELSE init \o <<Digits[DigitVal(last) + 2]>>

(***************************************************************************)
(* encoding/json, as jwt uses it for the claims                            *)
(***************************************************************************)
Quote == "\""
Backslash == "\\"
EscapedLt == <<Backslash, "u", "0", "0", "3", "c">>

\* json.Marshal of a string, without the enclosing quotes: the quote and the
\* backslash are escaped with a backslash, "<" as a six-character u-escape (HTML escaping is on)
\* a marshaller that writes the characters as they are
MarshalStringRaw(s) == s

RECURSIVE MarshalString(_)
MarshalString(s) ==
    IF s = << >> THEN << >>
    ELSE (IF s[1] = Quote \/ s[1] = Backslash THEN <<Backslash, s[1]>>
          ELSE IF s[1] = "<" THEN EscapedLt
          ELSE <<s[1]>>) \o MarshalString(Tail(s))

\* the text is the inside of a JSON string literal
RECURSIVE ValidStringLiteral(_)
ValidStringLiteral(e) ==
    IF e = << >> THEN TRUE
    ELSE IF e[1] = Quote THEN FALSE
    ELSE IF e[1] # Backslash THEN ValidStringLiteral(Tail(e))
    ELSE IF Len(e) >= 2 /\ e[2] \in {Quote, Backslash}
         THEN ValidStringLiteral(SubSeq(e, 3, Len(e)))
    ELSE IF HasPrefix(e, EscapedLt)
         THEN ValidStringLiteral(SubSeq(e, Len(EscapedLt) + 1, Len(e)))
    ELSE FALSE

\* json.Unmarshal of a valid string literal
RECURSIVE UnmarshalString(_)
UnmarshalString(e) ==
    IF e = << >> THEN << >>
    ELSE IF e[1] # Backslash THEN <<e[1]>> \o UnmarshalString(Tail(e))
    ELSE IF e[2] \in {Quote, Backslash}
         THEN <<e[2]>> \o UnmarshalString(SubSeq(e, 3, Len(e)))
    ELSE <<"<">> \o UnmarshalString(SubSeq(e, Len(EscapedLt) + 1, Len(e)))

\* json.Unmarshal of a number literal into a Go uint: the literal has to be a
\* JSON number (no sign, no leading zero here) within 64 bits
UnmarshalUint(lit) ==
    LET r == ParseUint(lit, 64)
    IN  IF r.ok /\ StripZeros(lit) = lit THEN r ELSE [ok |-> FALSE, val |-> <<"0">>]

(***************************************************************************)
(* Token codec                                                             *)
(***************************************************************************)
\* ApplicationConfig.Secret as LoadConfig leaves it
Secret == "mysecret"
Issuer == "jiaxun"
\* 24 * time.Hour, in seconds
TokenLifetimeSeconds == 86400
TokenLifetime == TokenLifetimeSeconds * TicksPerSecond

\* jwt.NewNumericDate: the time truncated to whole seconds
NewNumericDate(t) == t \div TicksPerSecond
\* the instant a NumericDate stands for
DateTime(d) == d * TicksPerSecond

\* the signing methods of the family *jwt.SigningMethodHMAC
HMACMethods == {"HS256", "HS384", "HS512"}
\* the MAC of the signing input (header and claims) under key
Sign(alg, key, payload) == [alg |-> alg, key |-> key, payload |-> payload]
NoSignature == [alg |-> "none"]

\* JWTClaims as json.Marshal writes it
MarshalClaims(userID, email, role, expiresAt, issuedAt) ==
    [user_id |-> userID,
     email   |-> MarshalString(email),
     role    |-> MarshalString(role),
     exp     |-> expiresAt,
     iat     |-> issuedAt,
     iss     |-> Issuer]

\* GenerateToken; t1 and t2 are its two readings of time.Now()
GenerateToken(userID, email, role, t1, t2) ==
    LET expirationTime == t1 + TokenLifetime
        claims == MarshalClaims(userID, email, role,
                                NewNumericDate(expirationTime), NewNumericDate(t2))
    IN  [alg |-> "HS256", payload |-> claims, sig |-> Sign("HS256", Secret, claims)]

\* one symbol of an Authorization header value: a word, the space, or a
\* compact serialized token
Word(w) == [w |-> w]
Space == [w |-> " "]
Jwt(tok) == [jwt |-> tok]
IsJwt(sym) == DOMAIN sym = {"jwt"}

\* a key function that returns the secret whatever the signing method
KeyFuncAnyMethod(alg) == [ok |-> TRUE, key |-> Secret]

\* the key function AuthMiddleware hands to the parser
KeyFunc(alg) ==
    IF alg \notin HMACMethods
    THEN [ok |-> FALSE, key |-> ""]
    ELSE [ok |-> TRUE, key |-> Secret]

\* a parser built without claims validation
TokenNeverExpired(payload, t) == FALSE

\* the claims validator: exp has to lie after the one clock reading t
TokenExpired(payload, t) == ~(t < DateTime(payload.exp))

\* a verification that recomputes the MAC under the key the token names
SignatureValidAnyKey(tok, key) ==
    /\ DOMAIN tok.sig = {"alg", "key", "payload"}
    /\ tok.sig = Sign(tok.alg, tok.sig.key, tok.payload)

\* token.Method.Verify: the signature is the MAC of the signing input under key
SignatureValid(tok, key) == tok.sig = Sign(tok.alg, key, tok.payload)

NoClaims == [UserID |-> <<"0">>, Email |-> << >>, Role |-> << >>]

\* what jwt.ParseWithClaims returns: the error (by the sentinel errors.Is finds
\* in it), the text the library adds to it, the claims as far as they were
\* decoded, and token.Valid
ParseResult(err, detail, claims) ==
    [err |-> err, detail |-> detail, claims |-> claims, valid |-> err = "nil"]

\* jwt.ParseWithClaims(tokenString, claims, keyFunc) at time t:
\* segments and JSON first, then the key function, then the signature, then
\* the registered claims
ParseWithClaims(tokenString, t) ==
    IF Len(tokenString) # 1 \/ ~IsJwt(tokenString[1])
    THEN ParseResult("malformed", "", NoClaims)
    ELSE LET tok == tokenString[1].jwt
             p   == tok.payload
             uid == UnmarshalUint(p.user_id)
         IN  IF ~uid.ok \/ ~ValidStringLiteral(p.email) \/ ~ValidStringLiteral(p.role)
             THEN ParseResult("malformed", "", NoClaims)
             ELSE LET claims == [UserID |-> uid.val,
                                 Email  |-> UnmarshalString(p.email),
                                 Role   |-> UnmarshalString(p.role)]
                      k == KeyFunc(tok.alg)
                  IN  IF ~k.ok
                      THEN ParseResult("unverifiable", tok.alg, claims)
                      ELSE IF ~SignatureValid(tok, k.key)
                      THEN ParseResult("signature", "", claims)
                      ELSE IF TokenExpired(p, t)
                      THEN ParseResult("expired", "", claims)
                      ELSE ParseResult("nil", "", claims)

(***************************************************************************)
(* gin: the request context and the responses                              *)
(***************************************************************************)
\* c.Keys of a fresh context
NoKeys == << >>
Exists(keys, k) == k \in DOMAIN keys

\* c.JSON(status, gin.H{"error": msg}); detail is library text appended to msg
ErrorResponse(status, msg, detail) ==
    [status |-> status, body |-> [error |-> msg, detail |-> detail]]

\* what a middleware did: whether the chain goes on (c.Next) or is aborted,
\* the responses it wrote, the keys it leaves in the context, and whether it
\* handed a token to jwt.ParseWithClaims
Proceed(keys, parsed) ==
    [next |-> TRUE, resp |-> << >>, keys |-> keys, parsed |-> parsed]
\* an error response without c.Abort: the chain goes on
RejectAndGoOn(keys, parsed, status, msg, detail) ==
    [next |-> TRUE, resp |-> <<ErrorResponse(status, msg, detail)>>,
     keys |-> keys, parsed |-> parsed]
Reject(keys, parsed, status, msg, detail) ==
    [next |-> FALSE, resp |-> <<ErrorResponse(status, msg, detail)>>,
     keys |-> keys, parsed |-> parsed]

(***************************************************************************)
(* AuthMiddleware                                                          *)
(***************************************************************************)
publicPaths == {PathLogin, PathRegisterPublic, PathHealth}

\* a bypass for the public paths themselves only
IsPublicPathExact(path) == path \in publicPaths

IsPublicPath(path) == \E p \in publicPaths : HasPrefix(path, p)

\* a format check that lets further parts follow the token
BearerFormatLoose(parts) == ~(Len(parts) < 2 \/ parts[1] # <<Word("Bearer")>>)

\* the Authorization header has the form "Bearer {token}"
BearerFormat(parts) == ~(Len(parts) # 2 \/ parts[1] # <<Word("Bearer")>>)

\* an expired token answered as a permission failure
TokenErrorForbidden(r) ==
    IF r.err = "expired" THEN ErrorResponse(403, "Token has expired", "")
    ELSE IF r.err = "malformed" THEN ErrorResponse(401, "Malformed token", "")
    ELSE IF r.err = "signature" THEN ErrorResponse(401, "Invalid token signature", "")
    ELSE ErrorResponse(401, "Invalid token: ", r.detail)

\* the response for a token error
TokenErrorResponse(r) ==
    IF r.err = "expired" THEN ErrorResponse(401, "Token has expired", "")
    ELSE IF r.err = "malformed" THEN ErrorResponse(401, "Malformed token", "")
    ELSE IF r.err = "signature" THEN ErrorResponse(401, "Invalid token signature", "")
    ELSE ErrorResponse(401, "Invalid token: ", r.detail)

\* the keys of an identity in the context
Identity(userID, email, role) == [userID |-> userID, email |-> email, role |-> role]
\* the keys AuthMiddleware sets from verified claims
IdentityKeys(claims) == Identity(claims.UserID, claims.Email, claims.Role)

\* a middleware that copies the claims into the context before it looks at
\* the parser's error
AuthMiddlewareSetsEarly(path, authHeader, keys, t) ==
    IF IsPublicPath(path) THEN Proceed(keys, FALSE)
    ELSE IF authHeader = EmptyString
    THEN Reject(keys, FALSE, 401, "Authorization header is required", "")
    ELSE LET parts == Split(authHeader, Space)
         IN  IF ~BearerFormat(parts)
             THEN Reject(keys, FALSE, 401,
                         "Authorization header format must be Bearer {token}", "")
             ELSE LET r == ParseWithClaims(parts[2], t)
                  IN  IF r.err # "nil"
                      THEN [next |-> FALSE, resp |-> <<TokenErrorResponse(r)>>,
                            keys |-> IdentityKeys(r.claims), parsed |-> TRUE]
                      ELSE Proceed(IdentityKeys(r.claims), TRUE)

AuthMiddlewareResult(path, authHeader, keys, t) ==
    IF IsPublicPath(path) THEN Proceed(keys, FALSE)
    ELSE IF authHeader = EmptyString
    THEN Reject(keys, FALSE, 401, "Authorization header is required", "")
    ELSE LET parts == Split(authHeader, Space)
         IN  IF ~BearerFormat(parts)
             THEN Reject(keys, FALSE, 401,
                         "Authorization header format must be Bearer {token}", "")
             ELSE LET r == ParseWithClaims(parts[2], t)
                  IN  IF r.err # "nil"
                      THEN [next |-> FALSE, resp |-> <<TokenErrorResponse(r)>>,
                            keys |-> keys, parsed |-> TRUE]
                      ELSE IF ~r.valid
                      THEN Reject(keys, TRUE, 401, "Invalid token", "")
                      ELSE Proceed(IdentityKeys(r.claims), TRUE)

(***************************************************************************)
(* The authorization middlewares                                           *)
(***************************************************************************)
LoginRequiredResult(keys) ==
    IF ~Exists(keys, "userID")
    THEN Reject(keys, FALSE, 401, "Authentication required", "")
    ELSE Proceed(keys, FALSE)

\* a role check that lets the admin role in as well
TeacherRequiredOrAdmin(keys) ==
    IF ~Exists(keys, "userID")
    THEN Reject(keys, FALSE, 401, "Authentication required", "")
    ELSE IF ~Exists(keys, "role") \/ keys["role"] \notin {RoleTeacher, RoleAdmin}
    THEN Reject(keys, FALSE, 403, "Teacher privileges required", "")
    ELSE Proceed(keys, FALSE)

TeacherRequiredResult(keys) ==
    IF ~Exists(keys, "userID")
    THEN Reject(keys, FALSE, 401, "Authentication required", "")
    ELSE IF ~Exists(keys, "role") \/ keys["role"] # RoleTeacher
    THEN Reject(keys, FALSE, 403, "Teacher privileges required", "")
    ELSE Proceed(keys, FALSE)

\* an ownership check on the text of the path parameter
CanModifyUserByText(targetIDStr, keys) ==
    LET targetID == ParseUint(targetIDStr, 32)
    IN  IF ~targetID.ok
        THEN Reject(keys, FALSE, 400, "Invalid user ID", "")
        ELSE IF ~Exists(keys, "userID")
        THEN Reject(keys, FALSE, 401, "Authentication required", "")
        ELSE IF Exists(keys, "role") /\ keys["role"] = RoleTeacher
        THEN Proceed(keys, FALSE)
        ELSE IF keys["userID"] = targetIDStr
        THEN Proceed(keys, FALSE)
        ELSE Reject(keys, FALSE, 403, "You can only modify your own profile", "")

\* the permission checks made before the path parameter is looked at
CanModifyUserAuthFirst(targetIDStr, keys) ==
    LET targetID == ParseUint(targetIDStr, 32)
    IN  IF ~Exists(keys, "userID")
        THEN Reject(keys, FALSE, 401, "Authentication required", "")
        ELSE IF Exists(keys, "role") /\ keys["role"] = RoleTeacher
        THEN Proceed(keys, FALSE)
        ELSE IF ~targetID.ok \/ keys["userID"] # targetID.val
        THEN Reject(keys, FALSE, 403, "You can only modify your own profile", "")
        ELSE Proceed(keys, FALSE)

CanModifyUserResult(targetIDStr, keys) ==
    LET targetID == ParseUint(targetIDStr, 32)
    IN  IF ~targetID.ok
        THEN Reject(keys, FALSE, 400, "Invalid user ID", "")
        ELSE IF ~Exists(keys, "userID")
        THEN Reject(keys, FALSE, 401, "Authentication required", "")
        ELSE IF Exists(keys, "role") /\ keys["role"] = RoleTeacher
        THEN Proceed(keys, FALSE)
        ELSE IF keys["userID"] = targetID.val
        THEN Proceed(keys, FALSE)
        ELSE Reject(keys, FALSE, 403, "You can only modify your own profile", "")

(***************************************************************************)
(* The user store and UserService                                          *)
(***************************************************************************)
UserRoot == <<"r", "o", "o", "t">>
EmailRoot == <<"r", "o", "o", "t", "@", "e", "x", "a", "m", "p", "l", "e", ".", "c", "o", "m">>
PwRoot == <<"j", "i", "a", "x", "u", "n">>
UserAmy == <<"a", "m", "y">>
EmailAmy == <<"a", "\"", "<", "\\", "@", "x", ".", "i", "o">>
PwAmy == <<"a", "m", "y", "1", "2", "3">>
UserBob == <<"b", "o", "b">>
EmailBob == <<"b", "o", "b", "@", "x", ".", "i", "o">>
PwBob == <<"b", "o", "b", "4", "5", "6">>
UserCat == <<"c", "a", "t">>
EmailCat == <<"c", "a", "t", "@", "x", ".", "i", "o">>
PwCat == <<"c", "a", "t", "7", "8", "9">>
PwNew == <<"n", "e", "w", "p", "a", "s", "s">>

\* bcrypt: the hash of a password is the password behind the hash prefix
HashPassword(pw) == <<"$2a$">> \o pw
\* CheckPassword returns nil
CheckPassword(provided, recorded) == recorded = HashPassword(provided)

\* model.User (FullName, CreatedAt and the associations are left out)
User(id, username, email, password, role) ==
    [ID |-> id, Username |-> username, Email |-> email,
     Password |-> password, Role |-> role]
NoUser == User(<<"0">>, << >>, << >>, << >>, << >>)

\* the root user as InitDB creates it, with the id the database gave it
RootUser == User(<<"1">>, UserRoot, EmailRoot, HashPassword(PwRoot), RoleAdmin)
\* rows the users table holds besides root when the server starts: user 7 is
\* a student, user 8 a student or a teacher
StoredUsers(role8) ==
    {User(<<"7">>, UserAmy, EmailAmy, HashPassword(PwAmy), RoleStudent),
     User(<<"8">>, UserBob, EmailBob, HashPassword(PwBob), role8)}

\* db.Where(...).First(&user): the row and whether there is one (the columns
\* queried are unique, so at most one row matches)
First(rows) ==
    IF rows = {} THEN [found |-> FALSE, user |-> NoUser]
    ELSE [found |-> TRUE, user |-> CHOOSE u \in rows : TRUE]
GetByUsername(db, username) == First({u \in db : u.Username = username})
GetByEmail(db, email) == First({u \in db : u.Email = email})
GetByID(db, id) == First({u \in db : u.ID = id})

\* the lookup of a request the database fails on (a lost connection), if any
LookupFailures == {"none", "username", "email"}

\* an Authenticate that takes every lookup error for a wrong credential
AuthenticateHidesErrors(db, usernameOrEmail, password, failure) ==
    LET byName  == GetByUsername(db, usernameOrEmail)
        byEmail == GetByEmail(db, usernameOrEmail)
        user    == IF byName.found THEN byName.user ELSE byEmail.user
    IN  IF failure = "username" \/ (~byName.found /\ failure = "email")
        THEN [err |-> "ErrInvalidCredentials", user |-> NoUser]
        ELSE IF ~byName.found /\ ~byEmail.found
        THEN [err |-> "ErrInvalidCredentials", user |-> NoUser]
        ELSE IF ~CheckPassword(password, user.Password)
        THEN [err |-> "ErrInvalidCredentials", user |-> NoUser]
        ELSE [err |-> "nil", user |-> user]

\* an Authenticate that does not compare the password
AuthenticateAnyPassword(db, usernameOrEmail, password, failure) ==
    LET byName  == GetByUsername(db, usernameOrEmail)
        byEmail == GetByEmail(db, usernameOrEmail)
        user    == IF byName.found THEN byName.user ELSE byEmail.user
    IN  IF failure = "username" \/ (~byName.found /\ failure = "email")
        THEN [err |-> "ErrStore", user |-> NoUser]
        ELSE IF ~byName.found /\ ~byEmail.found
        THEN [err |-> "ErrInvalidCredentials", user |-> NoUser]
        ELSE [err |-> "nil", user |-> user]

\* UserService.Authenticate; an error of a lookup other than not-found is
\* returned as it is
Authenticate(db, usernameOrEmail, password, failure) ==
    LET byName  == GetByUsername(db, usernameOrEmail)
        byEmail == GetByEmail(db, usernameOrEmail)
        user    == IF byName.found THEN byName.user ELSE byEmail.user
    IN  IF failure = "username" \/ (~byName.found /\ failure = "email")
        THEN [err |-> "ErrStore", user |-> NoUser]
        ELSE IF ~byName.found /\ ~byEmail.found
        THEN [err |-> "ErrInvalidCredentials", user |-> NoUser]
        ELSE IF ~CheckPassword(password, user.Password)
        THEN [err |-> "ErrInvalidCredentials", user |-> NoUser]
        ELSE [err |-> "nil", user |-> user]

\* UserService.Create: the error and the table afterwards
Create(db, id, user) ==
    IF GetByUsername(db, user.Username).found
    THEN [err |-> "ErrUserAlreadyExists", db |-> db]
    ELSE IF GetByEmail(db, user.Email).found
    THEN [err |-> "ErrEmailAlreadyExists", db |-> db]
    ELSE [err |-> "nil",
          db  |-> db \cup {[user EXCEPT !.ID = id,
                                        !.Password = HashPassword(user.Password)]}]

\* UserService.Update
Update(db, user) ==
    LET existing == GetByID(db, user.ID)
        emailUser == GetByEmail(db, user.Email)
    IN  IF ~existing.found THEN [err |-> "ErrUserNotFound", db |-> db]
        ELSE IF /\ user.Email # existing.user.Email
                /\ emailUser.found
                /\ emailUser.user.ID # user.ID
        THEN [err |-> "ErrEmailAlreadyExists", db |-> db]
        ELSE LET saved ==
                     IF user.Password # EmptyString
                        /\ user.Password # existing.user.Password
                     THEN [user EXCEPT !.Password = HashPassword(user.Password)]
                     ELSE user
             IN  [err |-> "nil", db |-> (db \ {existing.user}) \cup {saved}]

\* UserService.Delete
Delete(db, id) ==
    IF ~GetByID(db, id).found THEN [err |-> "ErrUserNotFound", db |-> db]
    ELSE [err |-> "nil", db |-> {u \in db : u.ID # id}]

(***************************************************************************)
(* Requests and the route table of NewUserHandler                          *)
(***************************************************************************)
\* a JSON request body as the handlers bind it; valid is FALSE for a body
\* that is no JSON object
Body(username, email, password) ==
    [valid |-> TRUE, username |-> username, email |-> email, password |-> password]
NoBody == [valid |-> FALSE, username |-> << >>, email |-> << >>, password |-> << >>]

Request(method, path, header, body) ==
    [method |-> method, path |-> path, header |-> header, body |-> body]
NoRequest == Request("", << >>, << >>, NoBody)

UsersPrefix == PathUsers \o <<"/">>
\* the last path segment
Param(path) == SubSeq(path, Len(UsersPrefix) + 1, Len(path))
IsUserPath(path) ==
    /\ HasPrefix(path, UsersPrefix)
    /\ Param(path) # << >>
    /\ \A i \in 1..Len(Param(path)) : Param(path)[i] # "/"

\* a route table with GET /api/users/me registered outside the group that
\* uses AuthMiddleware
RouteMeOutsideGroup(method, path) ==
    IF path = PathLogin /\ method = "POST" THEN <<"Login">>
    ELSE IF path = PathUsers /\ method = "GET"
    THEN <<"AuthMiddleware", "TeacherRequired", "ListUsers">>
    ELSE IF path = PathUsers /\ method = "POST"
    THEN <<"AuthMiddleware", "TeacherRequired", "Register">>
    ELSE IF IsUserPath(path) /\ method = "GET" /\ Param(path) = NameMe
    THEN <<"GetCurrentUser">>
    ELSE IF IsUserPath(path) /\ method = "GET"
    THEN <<"AuthMiddleware", "GetUser">>
    ELSE IF IsUserPath(path) /\ method = "PUT"
    THEN <<"AuthMiddleware", "CanModifyUser", "UpdateUser">>
    ELSE IF IsUserPath(path) /\ method = "DELETE"
    THEN <<"AuthMiddleware", "CanModifyUser", "DeleteUser">>
    ELSE <<"NoRoute">>

\* the handlers chain of the route that matches, as NewUserHandler composes it
Route(method, path) ==
    IF path = PathLogin /\ method = "POST" THEN <<"Login">>
    ELSE IF path = PathUsers /\ method = "GET"
    THEN <<"AuthMiddleware", "TeacherRequired", "ListUsers">>
    ELSE IF path = PathUsers /\ method = "POST"
    THEN <<"AuthMiddleware", "TeacherRequired", "Register">>
    ELSE IF IsUserPath(path) /\ method = "GET" /\ Param(path) = NameMe
    THEN <<"AuthMiddleware", "GetCurrentUser">>
    ELSE IF IsUserPath(path) /\ method = "GET"
    THEN <<"AuthMiddleware", "GetUser">>
    ELSE IF IsUserPath(path) /\ method = "PUT"
    THEN <<"AuthMiddleware", "CanModifyUser", "UpdateUser">>
    ELSE IF IsUserPath(path) /\ method = "DELETE"
    THEN <<"AuthMiddleware", "CanModifyUser", "DeleteUser">>
    ELSE <<"NoRoute">>

(***************************************************************************)
(* The clients: the tokens, headers and requests they can send             *)
(***************************************************************************)
IdAbc == <<"a", "b", "c">>
Id07 == <<"0", "7">>
IdTooBig == <<"4", "2", "9", "4", "9", "6", "7", "2", "9", "6">>

NoToken == [absent |-> TRUE]

\* the clock readings of the model
Instants == {d * TokenLifetime + j : d \in 0..MaxDays, j \in 0..MaxJitter}
FarFuture == NewNumericDate((MaxDays + 2) * TokenLifetime)

\* claims a client writes for itself
ForgedClaims == MarshalClaims(<<"8">>, EmailBob, RoleTeacher, FarFuture, 0)
Forge(alg, key, payload) ==
    [alg |-> alg, payload |-> payload, sig |-> Sign(alg, key, payload)]

\* the tokens a client can build without the secret, from scratch and from a
\* token w it was issued
ForgedTokens(w) ==
    {Forge("HS256", "guess", ForgedClaims),
     Forge("HS256", "guess", [ForgedClaims EXCEPT !.exp = 0]),
     Forge("RS256", "rsa-private-key", ForgedClaims),
     [alg |-> "none", payload |-> ForgedClaims, sig |-> NoSignature],
     Forge("HS256", "guess", [ForgedClaims EXCEPT !.user_id = <<"-", "1">>])}
    \cup (IF w = NoToken THEN {}
          ELSE {[w EXCEPT !.payload.role = MarshalString(RoleTeacher)],
                [w EXCEPT !.payload.exp = FarFuture],
                [w EXCEPT !.alg = "none", !.sig = NoSignature]})

Bearer(tokenString) == <<Word("Bearer"), Space>> \o tokenString

\* Authorization headers of the form "Bearer {token}" with a token of toks
TokenHeaders(toks) == {Bearer(<<Jwt(tok)>>) : tok \in toks}

\* Authorization headers of other forms, around the best token the client has
OtherHeaders(w) ==
    LET tok == IF w = NoToken THEN Forge("HS256", "guess", ForgedClaims) ELSE w
    IN  {<<Word("token"), Space, Word("abc")>>,
         <<Word("bearer"), Space, Jwt(tok)>>,
         <<Word("Bearer"), Space, Space, Jwt(tok)>>,
         <<Word("Bearer"), Space, Jwt(tok), Space, Word("abc")>>,
         <<Space, Word("Bearer"), Space, Jwt(tok)>>,
         <<Word("Bearer"), Jwt(tok)>>,
         <<Word("Bearer")>>,
         <<Jwt(tok)>>,
         Bearer(<<Word("abc")>>),
         Bearer(<< >>)}

LoginBodies ==
    {Body(UserRoot, << >>, PwRoot), Body(UserAmy, << >>, PwAmy),
     Body(EmailAmy, << >>, PwAmy), Body(UserBob, << >>, PwBob),
     Body(UserAmy, << >>, PwBob), Body(UserCat, << >>, PwCat),
     Body(UserAmy, << >>, << >>), NoBody}
RegisterBodies == {Body(UserCat, EmailCat, PwCat), Body(UserCat, EmailCat, IdAbc)}
UpdateBodies == {Body(<< >>, << >>, << >>), NoBody}
IdParams == {<<"7">>, <<"8">>, Id07, IdAbc, IdTooBig}

\* method, path and body of the calls to the routes behind AuthMiddleware
ProtectedCalls ==
    {<<"GET", PathUsers, NoBody>>, <<"GET", UsersPrefix \o NameMe, NoBody>>}
    \cup {<<"POST", PathUsers, b>> : b \in RegisterBodies}
    \cup {<<"GET", UsersPrefix \o id, NoBody>> : id \in {<<"7">>, IdAbc}}
    \cup {<<"PUT", UsersPrefix \o id, Body(<< >>, << >>, << >>)>> : id \in IdParams}
    \cup {<<"PUT", UsersPrefix \o <<"7">>, b>> : b \in UpdateBodies}
    \cup {<<"DELETE", UsersPrefix \o id, NoBody>> : id \in {<<"7">>, IdAbc}}
\* the calls on which forged tokens are tried
ProbedCalls ==
    {<<"GET", PathUsers, NoBody>>}
    \cup {<<"PUT", UsersPrefix \o id, Body(<< >>, << >>, << >>)>> : id \in {<<"8">>, IdAbc}}

\* the requests a client holding token w sends to the server
Requests(w) ==
    {Request(c[1], c[2], h, c[3]) :
        c \in ProtectedCalls, h \in TokenHeaders({w} \ {NoToken}) \cup {EmptyString}}
    \cup {Request(c[1], c[2], h, c[3]) :
              c \in ProbedCalls, h \in TokenHeaders(ForgedTokens(w))}
    \cup {Request("GET", UsersPrefix \o NameMe, h, NoBody) : h \in OtherHeaders(w)}
    \cup {Request("POST", PathLogin, EmptyString, b) : b \in LoginBodies}
    \cup {Request("GET", PathHealth, EmptyString, NoBody),
          Request("GET", PathLogin, EmptyString, NoBody)}

(***************************************************************************)
(* The config package                                                      *)
(***************************************************************************)
\* the goroutines that call into the package
Procs == {"main", "w1", "w2"}
\* the configFile arguments of LoadConfig
ConfigFiles == {"", "config.json"}
\* application.secret as a config file can set it
FileSecret == "filesecret"
\* instance while it is nil, and after once.Do has stored the defaults
NilInstance == [set |-> FALSE, Secret |-> ""]
DefaultInstance == [set |-> TRUE, Secret |-> Secret]

\* the package state: instance, the state of once, and for each goroutine
\* where it is in the package (pc), whether it came in through GetConfig
\* (via), the configFile it passed (file) and the secret its last
\* GetConfig().Application.Secret gave it (seen)
Config(instance, once, pc, via, file, seen) ==
    [instance |-> instance, once |-> once, pc |-> pc, via |-> via,
     file |-> file, seen |-> seen]
\* before the first call
FreshConfig ==
    Config(NilInstance, "fresh", [p \in Procs |-> "idle"],
           [p \in Procs |-> "LoadConfig"], [p \in Procs |-> ""],
           [p \in Procs |-> ""])
\* after main's LoadConfig has returned the defaults
LoadedConfig == [FreshConfig EXCEPT !.instance = DefaultInstance, !.once = "done"]

(***************************************************************************)
(* Goroutines in the services                                              *)
(***************************************************************************)
\* the goroutines that serve requests side by side
Workers == {"g1", "g2"}
\* a goroutine that is in no service call
Idle == [op |-> "idle", pc |-> "idle"]
NoCalls == [p \in Workers |-> Idle]

(***************************************************************************)
(* State                                                                   *)
(***************************************************************************)
VARIABLES
    now,      \* the wall clock, in ticks
    users,    \* the rows of the users table
    nextID,   \* the id the database gives the next row
    wallet,   \* the token the client keeps from a login, or NoToken
    grant,    \* the identity GenerateToken was called with for that token
    req,      \* the request being served
    chain,    \* the handlers of its route that have not run yet
    ctx,      \* c.Keys of its context
    resp,     \* the responses written for it, in order
    ran,      \* the handlers that have run for it, in order
    parsed,   \* whether a token of it was handed to jwt.ParseWithClaims
    fault,    \* the lookup the database fails on while it is served
    cfg,      \* the config package: instance, once, and the goroutines in it
    calls,    \* the service call each goroutine is in, and how far it is
    contests, \* the rows of the contest table
    registrations  \* the rows of the contest_registration table

vars == <<now, users, nextID, wallet, grant, req, chain, ctx, resp, ran, parsed,
          fault, cfg, calls, contests, registrations>>
server == <<now, users, nextID, wallet, grant, cfg, calls, contests, registrations>>

Init ==
    /\ now = 0
    /\ \E seed \in {{}} \cup {StoredUsers(role8) : role8 \in {RoleStudent, RoleTeacher}} :
          /\ users = {RootUser} \cup seed
          /\ nextID = IF seed = {} THEN <<"2">> ELSE <<"9">>
    /\ wallet = NoToken
    /\ grant = NoKeys
    /\ req = NoRequest
    /\ chain = << >>
    /\ ctx = NoKeys
    /\ resp = << >>
    /\ ran = << >>
    /\ parsed = FALSE
    /\ fault = "none"
    /\ cfg = LoadedConfig
    /\ calls = NoCalls
    /\ contests = {}
    /\ registrations = {}

\* the engine takes a request, finds its route and starts a fresh context
Arrive ==
    /\ chain = << >>
    /\ req = NoRequest
    /\ \E r \in Requests(wallet) :
          /\ req' = r
          /\ chain' = Route(r.method, r.path)
          /\ fault' \in IF Route(r.method, r.path) = <<"Login">>
                        THEN LookupFailures ELSE {"none"}
    /\ ctx' = NoKeys
    /\ resp' = << >>
    /\ ran' = << >>
    /\ parsed' = FALSE
    /\ UNCHANGED server

\* time passes between two requests
Tick ==
    /\ chain = << >>
    /\ req = NoRequest
    /\ \E t \in Instants : t > now /\ now' = t
    /\ UNCHANGED <<users, nextID, wallet, grant, cfg, calls, contests, registrations,
                   req, chain, ctx, resp, ran, parsed, fault>>

\* the request is over and its context is gone
Finish ==
    /\ chain = << >>
    /\ req # NoRequest
    /\ req' = NoRequest
    /\ ctx' = NoKeys
    /\ resp' = << >>
    /\ ran' = << >>
    /\ parsed' = FALSE
    /\ fault' = "none"
    /\ UNCHANGED <<server, chain>>

\* a middleware runs: it goes on to the next handler or aborts the chain
Middleware(name, r) ==
    /\ chain # << >>
    /\ Head(chain) = name
    /\ chain' = IF r.next THEN Tail(chain) ELSE << >>
    /\ ctx' = r.keys
    /\ resp' = resp \o r.resp
    /\ ran' = Append(ran, name)
    /\ parsed' = (parsed \/ r.parsed)
    /\ UNCHANGED <<req, fault>>

\* an AuthMiddleware that also looks the token's user up in the store
AuthMiddlewareChecksUser ==
    /\ Middleware("AuthMiddleware",
                  LET r == AuthMiddlewareResult(req.path, req.header, ctx, now)
                  IN  IF /\ r.next
                         /\ Exists(r.keys, "userID")
                         /\ ~GetByID(users, r.keys["userID"]).found
                      THEN Reject(ctx, TRUE, 401, "Invalid token", "")
                      ELSE r)
    /\ UNCHANGED server

AuthMiddleware ==
    /\ Middleware("AuthMiddleware",
                  AuthMiddlewareResult(req.path, req.header, ctx, now))
    /\ UNCHANGED server

TeacherRequired ==
    /\ Middleware("TeacherRequired", TeacherRequiredResult(ctx))
    /\ UNCHANGED server

CanModifyUser ==
    /\ Middleware("CanModifyUser", CanModifyUserResult(Param(req.path), ctx))
    /\ UNCHANGED server

\* a route handler runs and writes its response
Handler(name, response) ==
    /\ chain # << >>
    /\ Head(chain) = name
    /\ chain' = Tail(chain)
    /\ resp' = Append(resp, response)
    /\ ran' = Append(ran, name)
    /\ UNCHANGED <<req, ctx, parsed, fault>>

OK(status, body) == [status |-> status, body |-> body]
\* the user as the handlers return it
Public(user) == [user EXCEPT !.Password = EmptyString]

\* the engine's answer when no route matches
NoRoute ==
    /\ Handler("NoRoute", ErrorResponse(404, "404 page not found", ""))
    /\ UNCHANGED server

\* UserHandler.Login
Login ==
    LET b == req.body
        a == Authenticate(users, b.username, b.password, fault)
    IN  IF ~b.valid \/ b.username = EmptyString \/ b.password = EmptyString
        THEN /\ Handler("Login", ErrorResponse(400, "binding", ""))
             /\ UNCHANGED server
        ELSE IF a.err = "ErrInvalidCredentials"
        THEN /\ Handler("Login", ErrorResponse(401, "Invalid credentials", ""))
             /\ UNCHANGED server
        ELSE IF a.err # "nil"
        THEN /\ Handler("Login", ErrorResponse(500, "Authentication failed", ""))
             /\ UNCHANGED server
        ELSE \E t2 \in {t \in Instants : now <= t /\ t <= now + 1} :
                LET token == GenerateToken(a.user.ID, a.user.Email, a.user.Role, now, t2)
                IN  /\ Handler("Login", OK(200, [token |-> token, user |-> Public(a.user)]))
                    /\ now' = t2
                    /\ \/ UNCHANGED <<wallet, grant>>
                       \/ /\ wallet' = token
                          /\ grant' = Identity(a.user.ID, a.user.Email, a.user.Role)
                    /\ UNCHANGED <<users, nextID, cfg, calls, contests, registrations>>

\* the e-mail rule of the request validator: something, an @, something
IsEmail(s) == \E i \in 2..(Len(s) - 1) : s[i] = "@"

\* UserHandler.Register
Register ==
    LET b == req.body
        c == Create(users, nextID, User(<<"0">>, b.username, b.email, b.password, EmptyString))
    IN  IF ~b.valid \/ b.username = EmptyString \/ ~IsEmail(b.email) \/ Len(b.password) < 6
        THEN /\ Handler("Register", ErrorResponse(400, "binding", ""))
             /\ UNCHANGED server
        ELSE IF c.err = "ErrUserAlreadyExists"
        THEN /\ Handler("Register", ErrorResponse(409, "User already exists", ""))
             /\ UNCHANGED server
        ELSE IF c.err # "nil"
        THEN /\ Handler("Register", ErrorResponse(500, "Failed to create user", ""))
             /\ UNCHANGED server
        ELSE /\ Handler("Register", OK(201, [user |-> Public(GetByID(c.db, nextID).user)]))
             /\ users' = c.db
             /\ nextID' = NumeralSucc(nextID)
             /\ UNCHANGED <<now, wallet, grant, cfg, calls, contests, registrations>>

\* the answer of gin's recovery to a panic in a handler
Panic == ErrorResponse(500, "panic", "")

\* UserHandler.GetCurrentUser
GetCurrentUser ==
    /\ Handler("GetCurrentUser",
               IF ~Exists(ctx, "userID") THEN Panic
               ELSE LET u == GetByID(users, ctx["userID"])
                    IN  IF ~u.found THEN ErrorResponse(404, "User not found", "")
                        ELSE OK(200, [user |-> Public(u.user)]))
    /\ UNCHANGED server

\* UserHandler.GetUser
GetUser ==
    /\ Handler("GetUser",
               LET id == ParseUint(Param(req.path), 32)
                   u  == GetByID(users, id.val)
               IN  IF ~id.ok THEN ErrorResponse(400, "Invalid user ID", "")
                   ELSE IF ~u.found THEN ErrorResponse(404, "User not found", "")
                   ELSE OK(200, [user |-> Public(u.user)]))
    /\ UNCHANGED server

\* an UpdateUser that also writes the Role field
UpdateUserWritesRole ==
    LET id == ParseUint(Param(req.path), 32)
        b  == req.body
        u  == GetByID(users, id.val)
        user == [u.user EXCEPT
                    !.Role = RoleTeacher,
                    !.Email = IF b.email # EmptyString THEN b.email ELSE @,
                    !.Password = IF b.password # EmptyString THEN b.password ELSE @]
        upd == Update(users, user)
    IN  /\ Handler("UpdateUser",
                   IF ~id.ok THEN ErrorResponse(400, "Invalid user ID", "")
                   ELSE IF ~b.valid THEN ErrorResponse(400, "binding", "")
                   ELSE IF ~u.found THEN ErrorResponse(404, "User not found", "")
                   ELSE IF upd.err # "nil"
                   THEN ErrorResponse(500, "Failed to update user", "")
                   ELSE OK(200, [user |-> Public(GetByID(upd.db, id.val).user)]))
        /\ users' = IF id.ok /\ b.valid /\ u.found THEN upd.db ELSE users
        /\ UNCHANGED <<now, nextID, wallet, grant, cfg, calls, contests, registrations>>

\* UserHandler.UpdateUser
UpdateUser ==
    LET id == ParseUint(Param(req.path), 32)
        b  == req.body
        u  == GetByID(users, id.val)
        user == [u.user EXCEPT
                    !.Email = IF b.email # EmptyString THEN b.email ELSE @,
                    !.Password = IF b.password # EmptyString THEN b.password ELSE @]
        upd == Update(users, user)
    IN  /\ Handler("UpdateUser",
                   IF ~id.ok THEN ErrorResponse(400, "Invalid user ID", "")
                   ELSE IF ~b.valid THEN ErrorResponse(400, "binding", "")
                   ELSE IF ~u.found THEN ErrorResponse(404, "User not found", "")
                   ELSE IF upd.err # "nil"
                   THEN ErrorResponse(500, "Failed to update user", "")
                   ELSE OK(200, [user |-> Public(GetByID(upd.db, id.val).user)]))
        /\ users' = IF id.ok /\ b.valid /\ u.found THEN upd.db ELSE users
        /\ UNCHANGED <<now, nextID, wallet, grant, cfg, calls, contests, registrations>>

\* UserHandler.DeleteUser
DeleteUser ==
    LET id == ParseUint(Param(req.path), 32)
        del == Delete(users, id.val)
    IN  /\ Handler("DeleteUser",
                   IF ~id.ok THEN ErrorResponse(400, "Invalid user ID", "")
                   ELSE IF del.err # "nil" THEN ErrorResponse(404, "User not found", "")
                   ELSE OK(200, [message |-> "User deleted successfully"]))
        /\ users' = IF id.ok THEN del.db ELSE users
        /\ UNCHANGED <<now, nextID, wallet, grant, cfg, calls, contests, registrations>>

\* UserHandler.ListUsers
ListUsers ==
    /\ Handler("ListUsers", OK(200, [users |-> {Public(u) : u \in users}]))
    /\ UNCHANGED server

Next ==
    \/ Arrive
    \/ Tick
    \/ Finish
    \/ AuthMiddleware
    \/ TeacherRequired
    \/ CanModifyUser
    \/ NoRoute
    \/ Login
    \/ Register
    \/ GetCurrentUser
    \/ GetUser
    \/ UpdateUser
    \/ DeleteUser
    \/ ListUsers

Spec == Init /\ [][Next]_vars

(***************************************************************************)
(* AuthMiddleware and GenerateToken on their own: the middleware in front  *)
(* of one endpoint on any path, the codec called with any identity         *)
(***************************************************************************)
PathHealthz == PathHealth \o <<"z">>
PathLoginSub == PathLogin \o <<"/", "x">>
PathHealthUpper == <<"/", "a", "p", "i", "/", "H", "e", "a", "l", "t", "h">>
PathHealthCut == SubSeq(PathHealth, 1, Len(PathHealth) - 1)
PathHealthInside == <<"/", "v", "1">> \o PathHealth

DirectPaths ==
    {PathLogin, PathRegisterPublic, PathHealth, PathHealthz, PathLoginSub,
     PathHealthUpper, PathHealthCut, PathHealthInside, UsersPrefix \o NameMe}

\* the identities GenerateToken is called with
GrantedIDs == {<<"0">>, <<"7">>, MaxUint64}
GrantedEmails == {EmptyString, EmailAmy}
GrantedRoles == {EmptyString, RoleTeacher, <<Backslash, "u", Quote>>}

DirectRequests(w) ==
    {Request("GET", path, h, NoBody) :
        path \in DirectPaths,
        h \in TokenHeaders(({w} \ {NoToken})
                           \cup {Forge("HS256", "guess", ForgedClaims)})
              \cup {EmptyString, <<Word("token"), Space, Word("abc")>>}}

\* a request comes to the middleware
ArriveDirect ==
    /\ chain = << >>
    /\ req = NoRequest
    /\ \E r \in DirectRequests(wallet) : req' = r
    /\ chain' = <<"AuthMiddleware", "Endpoint">>
    /\ fault' = "none"
    /\ ctx' = NoKeys
    /\ resp' = << >>
    /\ ran' = << >>
    /\ parsed' = FALSE
    /\ UNCHANGED server

\* the handler behind the middleware
Endpoint ==
    /\ Handler("Endpoint", OK(200, [message |-> "ok"]))
    /\ UNCHANGED server

\* GenerateToken is called
IssueToken ==
    /\ chain = << >>
    /\ req = NoRequest
    /\ \E id \in GrantedIDs, email \in GrantedEmails, role \in GrantedRoles,
          t2 \in {t \in Instants : now <= t /\ t <= now + 1} :
          /\ wallet' = GenerateToken(id, email, role, now, t2)
          /\ grant' = Identity(id, email, role)
          /\ now' = t2
    /\ UNCHANGED <<users, nextID, cfg, calls, contests, registrations, req, chain, ctx, resp, ran, parsed, fault>>

NextMiddleware ==
    \/ ArriveDirect
    \/ IssueToken
    \/ Tick
    \/ Finish
    \/ AuthMiddleware
    \/ Endpoint

SpecMiddleware == Init /\ [][NextMiddleware]_vars

(***************************************************************************)
(* The authorization middlewares in a chain of their own: one of them in   *)
(* front of an endpoint, with or without AuthMiddleware before it          *)
(***************************************************************************)
Guards == {"LoginRequired", "TeacherRequired", "CanModifyUser"}
Chains ==
    {<<g, "Endpoint">> : g \in Guards}
    \cup {<<"AuthMiddleware", g, "Endpoint">> : g \in Guards}

ChainRequests(w) ==
    {Request("PUT", UsersPrefix \o id, h, NoBody) :
        id \in {<<"7">>, IdAbc},
        h \in TokenHeaders(({w} \ {NoToken})
                           \cup {Forge("HS256", "guess", ForgedClaims)})
              \cup {EmptyString, <<Word("token"), Space, Word("abc")>>}}

\* a request comes to a route with one of the chains
ArriveChain ==
    /\ chain = << >>
    /\ req = NoRequest
    /\ \E r \in ChainRequests(wallet) : req' = r
    /\ chain' \in Chains
    /\ fault' = "none"
    /\ ctx' = NoKeys
    /\ resp' = << >>
    /\ ran' = << >>
    /\ parsed' = FALSE
    /\ UNCHANGED server

LoginRequired ==
    /\ Middleware("LoginRequired", LoginRequiredResult(ctx))
    /\ UNCHANGED server

NextChains ==
    \/ ArriveChain
    \/ IssueToken
    \/ Tick
    \/ Finish
    \/ AuthMiddleware
    \/ LoginRequired
    \/ TeacherRequired
    \/ CanModifyUser
    \/ Endpoint

SpecChains == Init /\ [][NextChains]_vars

(***************************************************************************)
(* The config package under concurrent callers. The steps are the reads    *)
(* and writes of instance and of once; GetConfig reads instance outside    *)
(* once, so that read may see the value before or after a concurrent write *)
(***************************************************************************)
request == <<req, chain, ctx, resp, ran, parsed, fault>>
rest == <<now, users, nextID, wallet, grant, request, calls, contests, registrations>>

\* goroutine p calls LoadConfig(configFile)
LoadConfig(p) ==
    /\ cfg.pc[p] = "idle"
    /\ \E configFile \in ConfigFiles :
          cfg' = [cfg EXCEPT !.pc[p] = "once", !.via[p] = "LoadConfig",
                             !.file[p] = configFile]
    /\ UNCHANGED rest

\* once.Do: the first caller runs the function, a caller that comes while it
\* runs waits, a caller that comes after it skips it
OnceDo(p) ==
    /\ cfg.pc[p] = "once"
    /\ cfg.once # "running"
    /\ cfg' = IF cfg.once = "fresh"
              THEN [cfg EXCEPT !.once = "running", !.pc[p] = "defaults"]
              ELSE [cfg EXCEPT !.pc[p] = "return"]
    /\ UNCHANGED rest

\* instance = &Config{...}: the defaults are stored in instance
StoreDefaults(p) ==
    /\ cfg.pc[p] = "defaults"
    /\ cfg' = [cfg EXCEPT !.instance = DefaultInstance, !.pc[p] = "file"]
    /\ UNCHANGED rest

\* loadFromFile and overrideFromEnv, to the end of the function of once.Do:
\* the file, when it exists, is unmarshalled over the defaults
loadFromFile(p) ==
    /\ cfg.pc[p] = "file"
    /\ \E secret \in IF cfg.file[p] = "" THEN {cfg.instance.Secret}
                      ELSE {cfg.instance.Secret, FileSecret} :
          cfg' = [cfg EXCEPT !.instance.Secret = secret, !.once = "done",
                             !.pc[p] = "return"]
    /\ UNCHANGED rest

\* LoadConfig returns instance, to its caller or to GetConfig
ReturnConfig(p) ==
    /\ cfg.pc[p] = "return"
    /\ cfg' = [cfg EXCEPT !.pc[p] = IF cfg.via[p] = "GetConfig" THEN "read"
                                     ELSE "idle"]
    /\ UNCHANGED rest

\* goroutine p calls GetConfig from GenerateToken or from the key function of
\* AuthMiddleware: instance == nil is read without synchronisation
GetConfig(p) ==
    /\ cfg.pc[p] = "idle"
    /\ \E isNil \in IF cfg.instance.set /\ cfg.once = "done" THEN {FALSE}
                     ELSE IF cfg.instance.set THEN {FALSE, TRUE}
                     ELSE {TRUE} :
          cfg' = IF isNil
                 THEN [cfg EXCEPT !.pc[p] = "once", !.via[p] = "GetConfig",
                                  !.file[p] = ""]
                 ELSE [cfg EXCEPT !.pc[p] = "read", !.via[p] = "GetConfig"]
    /\ UNCHANGED rest

\* the caller reads .Application.Secret of the instance it was given
ReadSecret(p) ==
    /\ cfg.pc[p] = "read"
    /\ cfg' = [cfg EXCEPT !.seen[p] = cfg.instance.Secret, !.pc[p] = "idle"]
    /\ UNCHANGED rest

InitConfig ==
    /\ now = 0
    /\ users = {RootUser}
    /\ nextID = <<"2">>
    /\ wallet = NoToken
    /\ grant = NoKeys
    /\ req = NoRequest
    /\ chain = << >>
    /\ ctx = NoKeys
    /\ resp = << >>
    /\ ran = << >>
    /\ parsed = FALSE
    /\ fault = "none"
    /\ cfg = FreshConfig
    /\ calls = NoCalls
    /\ contests = {}
    /\ registrations = {}

NextConfig ==
    \E p \in Procs :
        \/ LoadConfig(p)
        \/ OnceDo(p)
        \/ StoreDefaults(p)
        \/ loadFromFile(p)
        \/ ReturnConfig(p)
        \/ GetConfig(p)
        \/ ReadSecret(p)

SpecConfig == InitConfig /\ [][NextConfig]_vars

(***************************************************************************)
(* The user service under concurrent requests: Register and UpdateUser     *)
(* run in goroutines, and every database statement is a step of its own    *)
(***************************************************************************)
\* the most rows the users table grows to
MaxUsers == 4

EmailDan == <<"d", "a", "n", "@", "x", ".", "i", "o">>
\* the bodies sent to Register: a new user, a user whose username is the
\* e-mail of user 7, and a user with the e-mail of the first
ServiceRegisterBodies ==
    {Body(UserCat, EmailCat, PwCat),
     Body(EmailAmy, EmailDan, PwCat),
     Body(UserBob, EmailCat, PwCat)}
\* the bodies sent to UpdateUser: nothing, a new e-mail, a new password
ServiceUpdateBodies ==
    {Body(EmptyString, EmptyString, EmptyString),
     Body(EmptyString, EmailCat, EmptyString),
     Body(EmptyString, EmptyString, PwNew)}
\* the ids UpdateUser is called for
ServiceIDs == {<<"7">>}
\* UpdateUser is not called for a user whose password has been hashed over
\* more often than this
MaxHashes == 1
\* how often a stored password has been hashed
RECURSIVE HashDepth(_)
HashDepth(pw) ==
    IF pw # EmptyString /\ Head(pw) = "$2a$" THEN 1 + HashDepth(Tail(pw)) ELSE 0

\* a goroutine in UserService.Create or UserService.Update
Call(op, pc, body, user, existing, err) ==
    [op |-> op, pc |-> pc, body |-> body, user |-> user, existing |-> existing,
     err |-> err]
Returned(call, err) == [call EXCEPT !.pc = "done", !.err = err]

\* the unique indexes on username and email that AutoMigrate makes from the
\* tags of model.User: whether writing the row breaks one of them
UniqueViolation(db, row) ==
    \E u \in db : /\ u.ID # row.ID
                  /\ (u.Username = row.Username \/ u.Email = row.Email)

others == <<now, wallet, grant, req, chain, ctx, resp, ran, parsed, fault, cfg,
            contests, registrations>>

\* UserHandler.Register up to its call of UserService.Create
RegisterCall(p) ==
    /\ calls[p].op = "idle"
    /\ Cardinality(users) < MaxUsers
    /\ \E b \in ServiceRegisterBodies :
          /\ b.valid /\ b.username # EmptyString /\ IsEmail(b.email)
          /\ Len(b.password) >= 6
          /\ calls' = [calls EXCEPT ![p] =
                 Call("Create", "username", b,
                      User(<<"0">>, b.username, b.email, b.password, EmptyString),
                      NoUser, "")]
    /\ UNCHANGED <<users, nextID, others>>

\* UserService.Create: s.repo.GetByUsername
CreateGetByUsername(p) ==
    /\ calls[p].op = "Create" /\ calls[p].pc = "username"
    /\ calls' = [calls EXCEPT ![p] =
           IF GetByUsername(users, calls[p].user.Username).found
           THEN Returned(@, "ErrUserAlreadyExists")
           ELSE [@ EXCEPT !.pc = "email"]]
    /\ UNCHANGED <<users, nextID, others>>

\* UserService.Create: s.repo.GetByEmail
CreateGetByEmail(p) ==
    /\ calls[p].op = "Create" /\ calls[p].pc = "email"
    /\ calls' = [calls EXCEPT ![p] =
           IF GetByEmail(users, calls[p].user.Email).found
           THEN Returned(@, "ErrEmailAlreadyExists")
           ELSE [@ EXCEPT !.pc = "insert"]]
    /\ UNCHANGED <<users, nextID, others>>

\* UserService.Create: HashPassword and s.repo.Create; the insert fails with
\* the driver's error when it breaks a unique index
CreateInsert(p) ==
    /\ calls[p].op = "Create" /\ calls[p].pc = "insert"
    /\ LET row == [calls[p].user EXCEPT
                      !.ID = nextID,
                      !.Password = HashPassword(calls[p].user.Password)]
       IN  IF UniqueViolation(users, row)
           THEN /\ calls' = [calls EXCEPT ![p] = Returned(@, "ErrUniqueConstraint")]
                /\ UNCHANGED <<users, nextID>>
           ELSE /\ calls' = [calls EXCEPT ![p] = Returned([@ EXCEPT !.user = row], "nil")]
                /\ users' = users \cup {row}
                /\ nextID' = NumeralSucc(nextID)
    /\ UNCHANGED others

\* UserHandler.UpdateUser up to its call of UserService.Update: the user is
\* read and the fields of the request are put over it
UpdateUserCall(p) ==
    /\ calls[p].op = "idle"
    /\ \E id \in ServiceIDs, b \in ServiceUpdateBodies :
          LET u == GetByID(users, id)
          IN  /\ b.valid /\ u.found
              /\ HashDepth(u.user.Password) <= MaxHashes
              /\ calls' = [calls EXCEPT ![p] =
                     Call("Update", "get", b,
                          [u.user EXCEPT
                              !.Email = IF b.email # EmptyString THEN b.email ELSE @,
                              !.Password = IF b.password # EmptyString
                                           THEN b.password ELSE @],
                          NoUser, "")]
    /\ UNCHANGED <<users, nextID, others>>

\* UserService.Update: s.repo.GetByID
UpdateGetByID(p) ==
    /\ calls[p].op = "Update" /\ calls[p].pc = "get"
    /\ LET existing == GetByID(users, calls[p].user.ID)
       IN  calls' = [calls EXCEPT ![p] =
               IF ~existing.found THEN Returned(@, "ErrUserNotFound")
               ELSE [@ EXCEPT !.pc = "email", !.existing = existing.user]]
    /\ UNCHANGED <<users, nextID, others>>

\* UserService.Update: s.repo.GetByEmail when the e-mail is another one
UpdateGetByEmail(p) ==
    /\ calls[p].op = "Update" /\ calls[p].pc = "email"
    /\ LET user == calls[p].user
           emailUser == GetByEmail(users, user.Email)
       IN  calls' = [calls EXCEPT ![p] =
               IF /\ user.Email # calls[p].existing.Email
                  /\ emailUser.found
                  /\ emailUser.user.ID # user.ID
               THEN Returned(@, "ErrEmailAlreadyExists")
               ELSE [@ EXCEPT !.pc = "save"]]
    /\ UNCHANGED <<users, nextID, others>>

\* UserService.Update: HashPassword when the password is another one than the
\* one read, and s.repo.Update, which writes every column of the row
UpdateSave(p) ==
    /\ calls[p].op = "Update" /\ calls[p].pc = "save"
    /\ LET user == calls[p].user
           row  == IF user.Password # EmptyString
                      /\ user.Password # calls[p].existing.Password
                   THEN [user EXCEPT !.Password = HashPassword(user.Password)]
                   ELSE user
       IN  IF UniqueViolation(users, row)
           THEN /\ calls' = [calls EXCEPT ![p] = Returned(@, "ErrUniqueConstraint")]
                /\ UNCHANGED users
           ELSE /\ calls' = [calls EXCEPT ![p] = Returned([@ EXCEPT !.user = row], "nil")]
                /\ users' = {u \in users : u.ID # row.ID} \cup {row}
    /\ UNCHANGED <<nextID, others>>

\* the handler answers and the goroutine is free again
Return(p) ==
    /\ calls[p].pc = "done"
    /\ calls' = [calls EXCEPT ![p] = Idle]
    /\ UNCHANGED <<users, nextID, others>>

InitService ==
    /\ Init
    /\ users = {RootUser} \cup StoredUsers(RoleStudent)

NextService ==
    \E p \in Workers :
        \/ RegisterCall(p)
        \/ CreateGetByUsername(p)
        \/ CreateGetByEmail(p)
        \/ CreateInsert(p)
        \/ UpdateUserCall(p)
        \/ UpdateGetByID(p)
        \/ UpdateGetByEmail(p)
        \/ UpdateSave(p)
        \/ Return(p)

SpecService == InitService /\ [][NextService]_vars

(***************************************************************************)
(* The contest service                                                     *)
(***************************************************************************)
\* the most rows the contest table grows to
MaxContests == 2

\* model.Contest (the registrations association is left out); a ContestID of
\* 0 is the zero value of a contest that has no id yet
Contest(id, name, startTime, endTime, isTeamBased, organizer) ==
    [ContestID |-> id, Name |-> name, StartTime |-> startTime,
     EndTime |-> endTime, IsTeamBased |-> isTeamBased, Organizer |-> organizer]
NoContest == Contest(0, EmptyString, 0, 0, FALSE, EmptyString)
\* model.ContestRegistration as RegisterUserToContest fills it
ContestRegistration(id, contestID, userID) ==
    [RegistrationID |-> id, ContestID |-> contestID, IsUserRegistration |-> FALSE,
     UserID |-> userID]

NameCup == <<"c", "u", "p">>
NameOpen == <<"o", "p", "e", "n">>
OrganizerAmy == <<"a", "m", "y">>
OrganizerBob == <<"b", "o", "b">>
\* the contests given to CreateContest: two without an id and one with the
\* id the first row gets
NewContests ==
    {Contest(0, NameCup, 1, 2, FALSE, OrganizerAmy),
     Contest(0, NameOpen, 2, 3, TRUE, OrganizerBob),
     Contest(1, NameOpen, 2, 3, TRUE, OrganizerBob)}
\* the contests given to UpdateContest: other values or the same values for
\* the ids 1 and 2, and an id that no row has
ChangedContests ==
    {Contest(1, NameOpen, 2, 3, TRUE, OrganizerBob),
     Contest(1, NameCup, 1, 2, FALSE, OrganizerAmy),
     Contest(2, NameCup, 1, 2, FALSE, OrganizerAmy),
     Contest(3, NameCup, 1, 2, FALSE, OrganizerAmy)}
\* the user ids given to RegisterUserToContest: a stored user and none
ContestUserIDs == {<<"1">>, <<"5">>}

\* the userService field of a ContestService that was never set
NilService == "nil"
\* NewContestService sets the repo field only
NewContestService == [userService |-> NilService]

\* ContestRepository.GetByID
GetContestByID(db, id) ==
    IF \E c \in db : c.ContestID = id
    THEN [found |-> TRUE, contest |-> CHOOSE c \in db : c.ContestID = id]
    ELSE [found |-> FALSE, contest |-> NoContest]

\* the id the database gives the next row of a table
AutoIncrement(db) == Cardinality(db) + 1

\* ContestService.CreateContest: a contest without id gets the next one; an
\* insert under a stored id fails with the driver's error, which is returned
\* as it is because the connection does not translate errors
CreateContest(db, contest) ==
    IF contest.ContestID # 0 /\ GetContestByID(db, contest.ContestID).found
    THEN [err |-> "ErrUniqueConstraint", db |-> db]
    ELSE [err |-> "nil",
          db  |-> db \cup {IF contest.ContestID = 0
                           THEN [contest EXCEPT !.ContestID = AutoIncrement(db)]
                           ELSE contest}]

\* ContestService.UpdateContest: s.repo.Update(existingContest) saves the row
\* that was just read
UpdateContest(db, contest) ==
    LET existingContest == GetContestByID(db, contest.ContestID)
    IN  IF ~existingContest.found THEN [err |-> "ErrContestNotFound", db |-> db]
        ELSE [err |-> "nil",
              db  |-> (db \ {existingContest.contest}) \cup {existingContest.contest}]

\* UserService.Exists
UserExists(db, id) == GetByID(db, id).found

\* ContestService.RegisterUserToContest: the error and the registrations
\* afterwards; s.userService.Exists on a nil userService reads s.repo through
\* a nil pointer, and the goroutine panics
RegisterUserToContest(service, contestDb, userDb, regs, contestID, userID) ==
    LET contest == GetContestByID(contestDb, contestID)
    IN  IF ~contest.found THEN [err |-> "ErrContestNotFound", regs |-> regs]
        ELSE IF service.userService = NilService
        THEN [err |-> "panic: nil pointer dereference", regs |-> regs]
        ELSE IF ~UserExists(userDb, userID)
        THEN [err |-> "ErrUserNotFound", regs |-> regs]
        ELSE [err |-> "nil",
              regs |-> regs \cup {ContestRegistration(AutoIncrement(regs),
                                                      contest.contest.ContestID, userID)}]

\* what a goroutine keeps of a contest service call that has returned
ContestCall(op, contest, userID, err) ==
    [op |-> op, pc |-> "done", contest |-> contest, userID |-> userID, err |-> err]

unrelated == <<now, users, nextID, wallet, grant, req, chain, ctx, resp, ran,
               parsed, fault, cfg>>

\* a goroutine calls CreateContest
CallCreateContest(p) ==
    /\ Cardinality(contests) < MaxContests
    /\ \E c \in NewContests :
          LET r == CreateContest(contests, c)
          IN  /\ contests' = r.db
              /\ calls' = [calls EXCEPT ![p] = ContestCall("CreateContest", c, EmptyString, r.err)]
    /\ UNCHANGED <<registrations, unrelated>>

\* a goroutine calls UpdateContest
CallUpdateContest(p) ==
    /\ \E c \in ChangedContests :
          LET r == UpdateContest(contests, c)
          IN  /\ contests' = r.db
              /\ calls' = [calls EXCEPT ![p] = ContestCall("UpdateContest", c, EmptyString, r.err)]
    /\ UNCHANGED <<registrations, unrelated>>

\* a goroutine calls RegisterUserToContest on the service NewContestService
\* has built
CallRegisterUserToContest(p) ==
    /\ \E contestID \in 1..2, userID \in ContestUserIDs :
          LET r == RegisterUserToContest(NewContestService, contests, users,
                                         registrations, contestID, userID)
          IN  /\ registrations' = r.regs
              /\ calls' = [calls EXCEPT ![p] =
                     ContestCall("RegisterUserToContest",
                                 [NoContest EXCEPT !.ContestID = contestID],
                                 userID, r.err)]
    /\ UNCHANGED <<contests, unrelated>>

InitContest ==
    /\ Init
    /\ users = {RootUser}

NextContest ==
    \E p \in Workers :
        \/ CallCreateContest(p)
        \/ CallUpdateContest(p)
        \/ CallRegisterUserToContest(p)

SpecContest == InitContest /\ [][NextContest]_vars

(***************************************************************************)
(* The claims                                                              *)
(***************************************************************************)
\* the handler has run for the request
Ran(name) == \E i \in 1..Len(ran) : ran[i] = name
\* the statuses of the responses written for the request
Statuses == {resp[i].status : i \in 1..Len(resp)}
\* the error messages written for the request
Errors == {resp[i].body.error : i \in {j \in 1..Len(resp) : "error" \in DOMAIN resp[j].body}}
\* the request has been served to the end of its chain
Finished == req # NoRequest /\ chain = << >>
\* the context holds a key of an identity
HasIdentity == \E k \in {"userID", "email", "role"} : Exists(ctx, k)
\* AuthMiddleware has ended the request
RejectedByAuth == Finished /\ ran = <<"AuthMiddleware">>
\* the header is "Bearer", one space and one serialized token
CarriesToken ==
    /\ Len(req.header) = 3
    /\ req.header[1] = Word("Bearer")
    /\ req.header[2] = Space
    /\ IsJwt(req.header[3])
CarriedToken == req.header[3].jwt
\* the token's signature is the HMAC of its content under the server's secret
GoodSignature(tok) ==
    /\ tok.alg \in {"HS256", "HS384", "HS512"}
    /\ tok.sig = [alg |-> tok.alg, key |-> "mysecret", payload |-> tok.payload]
\* the token's signature was made over its content under a key other than the
\* server's secret
OtherKeySignature(tok) ==
    /\ DOMAIN tok.sig = {"alg", "key", "payload"}
    /\ tok.sig.key # "mysecret"
    /\ tok.sig = [alg |-> tok.alg, key |-> tok.sig.key, payload |-> tok.payload]
\* the token's claims are a serialized JWTClaims
DecodableClaims(tok) ==
    /\ UnmarshalUint(tok.payload.user_id).ok
    /\ ValidStringLiteral(tok.payload.email)
    /\ ValidStringLiteral(tok.payload.role)
\* the instant the token expires, in ticks
ExpiresAt(tok) == tok.payload.exp * TicksPerSecond
\* the path starts with one of the three public paths, character by character
PublicPrefix(path) ==
    \E p \in {PathLogin, PathRegisterPublic, PathHealth} :
        /\ Len(path) >= Len(p)
        /\ \A i \in 1..Len(p) : path[i] = p[i]
\* the header is "Bearer", one space, and a rest without a space
WellFormedHeader(h) ==
    /\ Len(h) >= 2
    /\ h[1] = Word("Bearer")
    /\ h[2] = Space
    /\ \A i \in 3..Len(h) : h[i] # Space
SelfOrTeacherRoute == req.method \in {"PUT", "DELETE"} /\ IsUserPath(req.path)
TeacherRoute == req.method \in {"GET", "POST"} /\ req.path = PathUsers
TargetID == ParseUint(Param(req.path), 32)

\* C1: the context of a request holds an identity only if AuthMiddleware ran
\* for this request, handed the token of its Authorization header to the
\* parser, and that token carries a valid signature under the secret and has
\* not expired; the identity is the one the token's claims name.
C1_IdentityOnlyFromVerifiedToken ==
    HasIdentity =>
        /\ Ran("AuthMiddleware")
        /\ parsed
        /\ CarriesToken
        /\ GoodSignature(CarriedToken)
        /\ now < ExpiresAt(CarriedToken)
        /\ DOMAIN ctx = {"userID", "email", "role"}
        /\ ctx["userID"] = CarriedToken.payload.user_id
C1_Witness ==
    /\ HasIdentity
    /\ Finished
    /\ Ran("GetCurrentUser")
    /\ Statuses = {200}

\* C2: on PUT/DELETE /api/users/:id with a parseable id T the route handler
\* runs iff an identity is present and it is a teacher's or has userID = T;
\* without an identity the answer is 401, with another identity 403.
C2_SelfOrTeacher ==
    (Finished /\ SelfOrTeacherRoute /\ TargetID.ok) =>
        LET allowed == /\ HasIdentity
                       /\ \/ ctx["role"] = RoleTeacher
                          \/ ctx["userID"] = TargetID.val
        IN  /\ (Ran("UpdateUser") \/ Ran("DeleteUser")) <=> allowed
            /\ ~HasIdentity => Statuses = {401}
            /\ (HasIdentity /\ ~allowed) => Statuses = {403}
C2_Witness ==
    /\ Finished
    /\ req.method = "PUT"
    /\ Param(req.path) = <<"7">>
    /\ HasIdentity
    /\ ctx["userID"] = <<"8">>
    /\ ctx["role"] = RoleStudent
    /\ Statuses = {403}

C4_BadIdAlways400 ==
    (Finished /\ SelfOrTeacherRoute /\ ~TargetID.ok) => Statuses = {400}
\* C4 as amended: such a request is never answered 403; when AuthMiddleware
\* let it through it is answered 400 by CanModifyUser, whatever its identity,
\* and the route handler does not run; when AuthMiddleware rejected it, it is
\* answered 401 and CanModifyUser does not run.
C4_BadIdBeforePermission ==
    (Finished /\ SelfOrTeacherRoute /\ ~TargetID.ok) =>
        /\ 403 \notin Statuses
        /\ HasIdentity =>
              /\ Statuses = {400}
              /\ ran = <<"AuthMiddleware", "CanModifyUser">>
        /\ ~HasIdentity =>
              /\ Statuses = {401}
              /\ ran = <<"AuthMiddleware">>
C4_Witness ==
    /\ Finished
    /\ req.method = "PUT"
    /\ Param(req.path) = IdAbc
    /\ HasIdentity
    /\ ctx["role"] = RoleStudent
    /\ Statuses = {400}

\* C5: a request AuthMiddleware ends is answered 401 and nothing else; a 403
\* is written only by TeacherRequired or CanModifyUser, and only for a
\* request with an identity.
C5_AuthFailuresAre401 ==
    /\ RejectedByAuth => Statuses = {401}
    /\ 403 \in Statuses =>
          /\ HasIdentity
          /\ ran[Len(ran)] \in {"TeacherRequired", "CanModifyUser"}
C5_Witness ==
    /\ RejectedByAuth
    /\ Errors = {"Token has expired"}
    /\ Statuses = {401}

\* C6: on a path that is not public AuthMiddleware hands a token to the
\* parser only if the header is "Bearer", one space and a rest without any
\* space; any other header is answered 401 (and nothing else), sets no
\* identity and ends the request.
C6_BearerFormat ==
    (Ran("AuthMiddleware") /\ ~PublicPrefix(req.path)) =>
        /\ parsed => WellFormedHeader(req.header)
        /\ ~WellFormedHeader(req.header) =>
              /\ Statuses = {401}
              /\ ~HasIdentity
              /\ RejectedByAuth
C6_Witness ==
    /\ RejectedByAuth
    /\ req.header = <<Word("token"), Space, Word("abc")>>
    /\ Statuses = {401}
    /\ ~parsed

\* C7: on a path with a public path as prefix AuthMiddleware goes on to the
\* next handler, sets no identity, parses no token and writes no 401, whatever
\* the header; on any other path it goes on only with a parsed token and an
\* identity.
C7_PublicBypass ==
    Ran("AuthMiddleware") =>
        LET passed == chain = <<"Endpoint">> \/ Ran("Endpoint")
        IN  /\ PublicPrefix(req.path) =>
                  /\ passed
                  /\ ~HasIdentity
                  /\ ~parsed
                  /\ 401 \notin Statuses
            /\ (~PublicPrefix(req.path) /\ passed) => (parsed /\ HasIdentity)
C7_Witness ==
    /\ req.path = PathHealthz
    /\ req.header = Bearer(<<Jwt(Forge("HS256", "guess", ForgedClaims))>>)
    /\ Ran("Endpoint")
    /\ Statuses = {200}
    /\ ~HasIdentity

\* C8: a token GenerateToken made, presented before it expires on a path that
\* is not public, is accepted, and the identity in the context is the triple
\* GenerateToken was called with.
C8_RoundTrip ==
    (/\ Ran("AuthMiddleware")
     /\ ~PublicPrefix(req.path)
     /\ wallet # NoToken
     /\ req.header = Bearer(<<Jwt(wallet)>>)
     /\ now < ExpiresAt(wallet)) =>
        /\ ctx = grant
        /\ chain = <<"Endpoint">> \/ Ran("Endpoint")
        /\ Statuses \subseteq {200}
C8_Witness ==
    /\ Ran("Endpoint")
    /\ HasIdentity
    /\ ctx = Identity(MaxUint64, EmailAmy, <<Backslash, "u", Quote>>)
    /\ ctx = grant

\* C9 as claimed: a token signed under a key other than the server's secret is
\* answered 401 "Invalid token signature", no identity is set and no later
\* handler runs.
C9_OtherKeyBadSignature ==
    (/\ Ran("AuthMiddleware")
     /\ CarriesToken
     /\ OtherKeySignature(CarriedToken)) =>
        /\ Statuses = {401}
        /\ Errors = {"Invalid token signature"}
        /\ ~HasIdentity
        /\ RejectedByAuth
\* C9 as amended: a token signed under a key other than the server's secret is
\* never accepted: the answer is 401, no identity is set and no later handler
\* runs. The message is "Invalid token signature" when the claims decode into
\* JWTClaims and the algorithm is an HMAC one, "Malformed token" when the
\* claims do not decode, and "Invalid token: " with the key function's error
\* when they decode and the algorithm is not an HMAC one.
C9_OtherKeyRejected ==
    (/\ Ran("AuthMiddleware")
     /\ CarriesToken
     /\ OtherKeySignature(CarriedToken)) =>
        /\ Statuses = {401}
        /\ ~HasIdentity
        /\ RejectedByAuth
        /\ Errors =
              IF ~DecodableClaims(CarriedToken) THEN {"Malformed token"}
              ELSE IF CarriedToken.alg \in {"HS256", "HS384", "HS512"}
              THEN {"Invalid token signature"}
              ELSE {"Invalid token: "}
C9_Witness ==
    /\ RejectedByAuth
    /\ CarriesToken
    /\ CarriedToken = Forge("HS256", "guess", ForgedClaims)
    /\ Errors = {"Invalid token signature"}

\* C10: a token with a valid signature that is verified after its expires-at
\* instant is answered 401 "Token has expired"; no identity is set and no
\* later handler runs.
C10_ExpiredRejected ==
    (/\ Ran("AuthMiddleware")
     /\ CarriesToken
     /\ GoodSignature(CarriedToken)
     /\ now > ExpiresAt(CarriedToken)) =>
        /\ Statuses = {401}
        /\ Errors = {"Token has expired"}
        /\ ~HasIdentity
        /\ RejectedByAuth
C10_Witness ==
    /\ RejectedByAuth
    /\ CarriesToken
    /\ CarriedToken = wallet
    /\ GoodSignature(CarriedToken)
    /\ now > ExpiresAt(CarriedToken)
    /\ Errors = {"Token has expired"}

\* the token a successful Login has returned
LoginToken == resp[1].body.token
LoggedIn == Finished /\ ran = <<"Login">> /\ Statuses = {200}

\* C11: every token GenerateToken makes has issuer "jiaxun" and an expires-at
\* exactly 86400 seconds after its issued-at.
C11_LifetimeExact ==
    LoggedIn =>
        /\ LoginToken.payload.iss = "jiaxun"
        /\ LoginToken.payload.exp - LoginToken.payload.iat = 86400

\* C12: a token whose declared algorithm is not an HMAC one is never accepted:
\* the answer is 401, no identity is set, no later handler runs, and the
\* rejection comes from the key function (or from decoding), not from a
\* signature verification under the secret.
C12_AlgorithmChecked ==
    (/\ Ran("AuthMiddleware")
     /\ CarriesToken
     /\ CarriedToken.alg \notin {"HS256", "HS384", "HS512"}) =>
        /\ Statuses = {401}
        /\ ~HasIdentity
        /\ RejectedByAuth
        /\ "Invalid token signature" \notin Errors
        /\ DecodableClaims(CarriedToken) =>
              /\ Errors = {"Invalid token: "}
              /\ resp[1].body.detail = CarriedToken.alg
C12_Witness ==
    /\ RejectedByAuth
    /\ CarriesToken
    /\ wallet # NoToken
    /\ CarriedToken = [wallet EXCEPT !.alg = "none", !.sig = NoSignature]
    /\ now < ExpiresAt(wallet)
    /\ Statuses = {401}

\* the Login handler has served the request
LoginServed == Finished /\ ran = <<"Login">>
\* the response carries a token
TokenIssued == \E i \in 1..Len(resp) : "token" \in DOMAIN resp[i].body
\* the stored users whose username or e-mail is the identifier of the request
\* and whose hash is the hash of its password
Verified ==
    {u \in users : /\ u.Username = req.body.username \/ u.Email = req.body.username
                   /\ u.Password = <<"$2a$">> \o req.body.password}

\* C13: Login returns a token only when a stored user has the request's
\* identifier as username or e-mail and a hash that matches its password, and
\* the token and the identity GenerateToken was called with are that user's
\* (ID, Email, Role); a Login answered 400, 401 or 500 returns no token.
C13_TokenOnlyAfterAuthenticate ==
    LoginServed =>
        /\ Len(resp) = 1
        /\ TokenIssued <=> Statuses = {200}
        /\ TokenIssued =>
              \E u \in Verified :
                  /\ fault # "username"
                  /\ LoginToken.payload.user_id = u.ID
                  /\ UnmarshalString(LoginToken.payload.email) = u.Email
                  /\ UnmarshalString(LoginToken.payload.role) = u.Role
                  /\ wallet = LoginToken => grant = Identity(u.ID, u.Email, u.Role)
C13_Witness ==
    /\ LoginServed
    /\ TokenIssued
    /\ req.body.username = EmailAmy
    /\ wallet = LoginToken
    /\ grant = Identity(<<"7">>, EmailAmy, RoleStudent)

\* C14: the error body of a request AuthMiddleware rejects is one of the fixed
\* messages and carries no text of the token library's error.
C14_CoarseBodies ==
    RejectedByAuth =>
        /\ Errors \subseteq {"Authorization header is required",
                             "Authorization header format must be Bearer {token}",
                             "Token has expired", "Malformed token",
                             "Invalid token signature", "Invalid token: ",
                             "Invalid token"}
        /\ \A i \in 1..Len(resp) : resp[i].body.detail = ""

\* an error response has been written for the request
ErrorWritten == \E i \in 1..Len(resp) : resp[i].status \in {400, 401, 403}
\* what lets a request pass the handler
Allowed(name) ==
    IF name = "AuthMiddleware"
    THEN /\ HasIdentity
         /\ CarriesToken
         /\ GoodSignature(CarriedToken)
         /\ now < ExpiresAt(CarriedToken)
    ELSE IF name = "LoginRequired" THEN "userID" \in DOMAIN ctx
    ELSE IF name = "TeacherRequired" THEN HasIdentity /\ ctx["role"] = RoleTeacher
    ELSE IF name = "CanModifyUser"
    THEN /\ TargetID.ok
         /\ HasIdentity
         /\ ctx["role"] = RoleTeacher \/ ctx["userID"] = TargetID.val
    ELSE TRUE

\* C15: a request gets at most one response, and exactly one when it is over;
\* once AuthMiddleware, LoginRequired, TeacherRequired or CanModifyUser has
\* written an error the chain is over, that middleware was the last to run and
\* the endpoint has not run; a middleware the request has passed had nothing
\* to reject.
C15_OneResponseThenAbort ==
    /\ Len(resp) <= 1
    /\ Finished => Len(resp) = 1
    /\ ErrorWritten =>
          /\ chain = << >>
          /\ ~Ran("Endpoint")
          /\ ran[Len(ran)] \in Guards \cup {"AuthMiddleware"}
          /\ ~Allowed(ran[Len(ran)])
    /\ \A i \in 1..Len(ran) : (i < Len(ran) \/ ~ErrorWritten) => Allowed(ran[i])
C15_Witness ==
    /\ Finished
    /\ ran = <<"LoginRequired">>
    /\ Statuses = {401}
    /\ Errors = {"Authentication required"}

\* the request carries the token the client keeps from a login
CarriesWallet == wallet # NoToken /\ req.header = Bearer(<<Jwt(wallet)>>)

\* C16: whatever has been done since the login that issued it (updates and
\* deletions of its user, further logins), a token presented before its
\* expires-at passes AuthMiddleware with the identity it was issued with, and
\* presented after its expires-at it is rejected with 401.
C16_OnlyExpiryInvalidates ==
    (Ran("AuthMiddleware") /\ CarriesWallet) =>
        /\ now < ExpiresAt(wallet) =>
              /\ ctx = grant
              /\ ~RejectedByAuth
              /\ 401 \notin Statuses
        /\ now > ExpiresAt(wallet) =>
              /\ RejectedByAuth
              /\ Statuses = {401}
              /\ ~HasIdentity
C16_Witness ==
    /\ Ran("AuthMiddleware")
    /\ CarriesWallet
    /\ ctx = grant
    /\ HasIdentity
    /\ \A u \in users : u.ID # ctx["userID"]
    /\ Ran("GetCurrentUser")
    /\ Statuses = {404}

\* C17: all callers of GetConfig().Application.Secret are given one and the
\* same secret, the one the finished load has left in instance.
C17_OneSecret ==
    /\ \A p, q \in Procs :
          (cfg.seen[p] # "" /\ cfg.seen[q] # "") => cfg.seen[p] = cfg.seen[q]
    /\ cfg.once = "done" =>
          \A p \in Procs : cfg.seen[p] \in {"", cfg.instance.Secret}

\* the route handlers of the group /api/users
UserHandlers ==
    {"GetCurrentUser", "GetUser", "UpdateUser", "DeleteUser", "ListUsers", "Register"}

\* C18: a route handler of /api/users runs only behind AuthMiddleware and with
\* the identity of a verified token in the context, whose userID is an unsigned
\* integer; GetCurrentUser never panics; a request to these routes without an
\* identity is answered 401 and reaches no route handler.
C18_HandlersBehindIdentity ==
    /\ \A h \in UserHandlers :
          Ran(h) =>
              /\ ran[1] = "AuthMiddleware"
              /\ Allowed("AuthMiddleware")
              /\ "userID" \in DOMAIN ctx
              /\ ParseUint(ctx["userID"], 64).ok
    /\ "panic" \notin Errors
    /\ (Finished /\ Ran("AuthMiddleware") /\ ~HasIdentity) =>
          /\ Statuses = {401}
          /\ \A h \in UserHandlers : ~Ran(h)
C18_Witness ==
    /\ Finished
    /\ ran = <<"AuthMiddleware", "GetCurrentUser">>
    /\ ctx = Identity(<<"1">>, EmailRoot, RoleAdmin)
    /\ Statuses = {200}

\* the stored users the identifier of the request names, by username first
\* and by e-mail when no username matches
Named ==
    LET byName  == {u \in users : u.Username = req.body.username}
        byEmail == {u \in users : u.Email = req.body.username}
    IN  IF byName # {} THEN byName ELSE byEmail
\* a lookup of this request has failed for another reason than not-found
LookupFailed ==
    \/ fault = "username"
    \/ fault = "email" /\ \A u \in users : u.Username # req.body.username
\* the body binds: it is JSON with a username and a password
Binds ==
    /\ req.body.valid
    /\ req.body.username # << >>
    /\ req.body.password # << >>
InvalidCredentials ==
    [status |-> 401, body |-> [error |-> "Invalid credentials", detail |-> ""]]

\* C19: a Login whose identifier names no stored user and a Login whose
\* password does not match the named user's hash get the same response, 401
\* "Invalid credentials", without a token; a Login during which a lookup
\* fails for another reason than not-found gets 500, not 401.
C19_LoginFailures ==
    (LoginServed /\ Binds) =>
        /\ LookupFailed =>
              /\ Statuses = {500}
              /\ Errors = {"Authentication failed"}
              /\ ~TokenIssued
        /\ (~LookupFailed /\ Named = {}) => resp = <<InvalidCredentials>>
        /\ (~LookupFailed /\ Named # {} /\ Named \cap Verified = {}) =>
              resp = <<InvalidCredentials>>
        /\ Statuses = {401} => (~LookupFailed /\ Named \cap Verified = {})
C19_Witness ==
    /\ LoginServed
    /\ req.body = Body(UserAmy, << >>, PwBob)
    /\ fault = "none"
    /\ resp = <<InvalidCredentials>>
    /\ wallet = NoToken

\* nothing has the role teacher: no stored user, no issued token, no identity
\* in the context, and no teacher-only handler has run
NoTeacher ==
    /\ \A u \in users : u.Role # RoleTeacher
    /\ grant = NoKeys \/ grant["role"] # RoleTeacher
    /\ LoggedIn => UnmarshalString(LoginToken.payload.role) # RoleTeacher
    /\ HasIdentity => ctx["role"] # RoleTeacher
    /\ ~Ran("Register") /\ ~Ran("ListUsers")

Plaintexts == {PwRoot, PwAmy, PwBob, PwCat, PwNew}

\* C21: for every stored user u and every password p that matches u's stored
\* hash, Authenticate(identifier, p) returns u without an error when the
\* identifier is u's username and when it is u's e-mail, in every store state
\* the server reaches.
C21_AuthenticateByNameOrEmail ==
    \A u \in users, p \in Plaintexts :
        CheckPassword(p, u.Password) =>
            \A identifier \in {u.Username, u.Email} :
                Authenticate(users, identifier, p, "none") = [err |-> "nil", user |-> u]

\* no two stored users share a username, and no two share an e-mail
UniqueUsers ==
    \A u \in users, v \in users :
        u # v => u.Username # v.Username /\ u.Email # v.Email /\ u.ID # v.ID

\* goroutine p returns from its service call in this step
Returns(p) == calls[p].op # "idle" /\ calls[p].pc # "done" /\ calls'[p].pc = "done"
\* the e-mail is held by another user than the one with this id
HeldByAnother(db, email, id) == \E u \in db : u.Email = email /\ u.ID # id

\* C22: under every interleaving of Create and Update calls no two stored
\* users share a username or an e-mail; a Create that returns while its
\* username is stored returns ErrUserAlreadyExists, one that returns while its
\* e-mail is stored returns ErrEmailAlreadyExists (either of the two when both
\* are stored), an Update that returns while its e-mail is held by another
\* user returns ErrEmailAlreadyExists, and in each of these cases the call
\* leaves the table as it is.
C22_UniqueAndTypedErrors ==
    [][/\ UniqueUsers'
       /\ \A p \in Workers : Returns(p) =>
            LET user  == calls[p].user
                name  == GetByUsername(users, user.Username).found
                email == GetByEmail(users, user.Email).found
                typed == (IF name THEN {"ErrUserAlreadyExists"} ELSE {})
                            \cup (IF email THEN {"ErrEmailAlreadyExists"} ELSE {})
            IN  /\ (calls[p].op = "Create" /\ (name \/ email))
                      => calls'[p].err \in typed /\ users' = users
                /\ (calls[p].op = "Update" /\ HeldByAnother(users, user.Email, user.ID))
                      => calls'[p].err = "ErrEmailAlreadyExists" /\ users' = users]_vars

\* the stored row with this id
Stored(db, id) == GetByID(db, id).user

\* C23: every stored password is the hash of a plaintext that was supplied at
\* root creation, Register or UpdateUser, never a plaintext and never the hash
\* of a hash, and an UpdateUser without a password that succeeds leaves the
\* stored password of its user the hash that Update read for it.
C23_HashedOnce ==
    [][/\ \A u \in users' : \E p \in Plaintexts : u.Password = HashPassword(p)
       /\ \A p \in Workers :
             (/\ Returns(p)
              /\ calls[p].op = "Update"
              /\ calls[p].body.password = EmptyString
              /\ calls'[p].err = "nil")
             => Stored(users', calls[p].user.ID).Password
                   = calls[p].existing.Password]_vars

\* goroutine p returns from a call of this contest service operation in this
\* step
ContestReturns(p, op) == calls'[p] # calls[p] /\ calls'[p].op = op
\* the errors RegisterUserToContest is specified to return
TypedResults == {"nil", "ErrContestNotFound", "ErrUserNotFound"}

\* C24: when UpdateContest(c) returns nil for a contest whose ContestID is
\* stored, the stored contest with that id has the field values of c
\* afterwards; when the id is not stored it returns ErrContestNotFound and the
\* table is as it was.
C24_UpdateContestStores ==
    [][\A p \in Workers : ContestReturns(p, "UpdateContest") =>
          LET c == calls'[p].contest
          IN  IF GetContestByID(contests, c.ContestID).found
              THEN calls'[p].err = "nil"
                      => GetContestByID(contests', c.ContestID).contest = c
              ELSE calls'[p].err = "ErrContestNotFound" /\ contests' = contests]_vars

\* C25: RegisterUserToContest on the service NewContestService builds always
\* returns nil, ErrContestNotFound or ErrUserNotFound and never panics:
\* ErrContestNotFound when the contest is not stored, ErrUserNotFound when the
\* user is not stored, both without a new registration, and otherwise nil with
\* exactly one new registration, which links that user and that contest.
C25_RegisterUserTyped ==
    [][\A p \in Workers : ContestReturns(p, "RegisterUserToContest") =>
          LET contestID == calls'[p].contest.ContestID
              userID    == calls'[p].userID
              err       == calls'[p].err
              contest   == GetContestByID(contests, contestID).found
              user      == UserExists(users, userID)
              new       == registrations' \ registrations
          IN  /\ err \in TypedResults
              /\ ~contest => err = "ErrContestNotFound" /\ registrations' = registrations
              /\ (contest /\ ~user)
                    => err = "ErrUserNotFound" /\ registrations' = registrations
              /\ (contest /\ user)
                    => /\ err = "nil"
                       /\ registrations \subseteq registrations'
                       /\ Cardinality(new) = 1
                       /\ \A r \in new : r.ContestID = contestID /\ r.UserID = userID]_vars
====
